---- MODULE Spec2Model ----
(***************************************************************************)
(* Model of dozer-cache's MainEnvironment                                  *)
(* (dozer-cache/src/cache/lmdb/cache/main_environment.rs): the four LMDB   *)
(* sub-stores, the insert / delete / get / get_by_operation_id / count     *)
(* operations, the 21-byte RecordMetadata codec, and the read-write        *)
(* transaction (begin / commit / abort) the caller wraps them in.          *)
(***************************************************************************)
EXTENDS Integers, Sequences, FiniteSets, TLC

\* ---------------------------------------------------------------- bounds
\* Calls that allocate an operation id are enabled while the counter of the
\* transaction's view is below MaxOps.
MaxOps == 3
\* Primary keys are 1..NumKeys, record payloads are 1..NumNames.
NumKeys == 2
NumNames == 2

Keys == 1..NumKeys
Names == 1..NumNames

\* Option<T>: None is the empty tuple, Some(x) the one-element tuple.
None == << >>
Some(x) == << x >>

\* const INITIAL_RECORD_VERSION: u32 = 1_u32;
INITIAL_RECORD_VERSION == 1

\* Values the caller's record.version may hold before the call.
InputVersions == {None, Some(7)}

\* The records a caller passes to insert: values (id, name) and a version.
Records == [id : Keys, name : Names, version : InputVersions]

\* index::get_primary_key for the schema with primary index on `id`.
get_primary_key(record) == record.id

\* ------------------------------------------------- RecordMetadata codec
\* u64::to_be_bytes / u32::to_be_bytes: w bytes, most significant first.
RECURSIVE to_be_bytes(_, _)
to_be_bytes(n, w) ==
    IF w = 0 THEN << >> ELSE Append(to_be_bytes(n \div 256, w - 1), n % 256)

\* u64::from_be_bytes / u32::from_be_bytes.
RECURSIVE from_be_bytes(_)
from_be_bytes(bytes) ==
    IF Len(bytes) = 0 THEN 0
    ELSE from_be_bytes(SubSeq(bytes, 1, Len(bytes) - 1)) * 256 + bytes[Len(bytes)]

\* impl Encode for &RecordMetadata: result = [0; 21], id at 0..8, version at
\* 8..12, tag at 12, insert operation id at 13..21 when Some.
encode(metadata) ==
    to_be_bytes(metadata.id, 8) \o to_be_bytes(metadata.version, 4) \o
    (IF metadata.insert_operation_id # None
       THEN <<1>> \o to_be_bytes(metadata.insert_operation_id[1], 8)
       ELSE <<0>> \o [i \in 1..8 |-> 0])

\* impl Decode for RecordMetadata.
decode(bytes) ==
    [id |-> from_be_bytes(SubSeq(bytes, 1, 8)),
     version |-> from_be_bytes(SubSeq(bytes, 9, 12)),
     insert_operation_id |->
        IF bytes[13] = 1 THEN Some(from_be_bytes(SubSeq(bytes, 14, 21)))
        ELSE None]

\* ------------------------------------------------------ storage helpers
\* LmdbMap::get
MapGet(map, key) == IF key \in DOMAIN map THEN Some(map[key]) ELSE None
\* LmdbMap::insert_overwrite
MapInsertOverwrite(map, key, value) ==
    [k \in DOMAIN map \cup {key} |-> IF k = key THEN value ELSE map[k]]
\* LmdbMap::count
MapCount(map) == Cardinality(DOMAIN map)

\* enum Operation
OpInsert(record_id, record) ==
    [type |-> "Insert", record_id |-> record_id, record |-> record]
OpDelete(operation_id) ==
    [type |-> "Delete", operation_id |-> operation_id]

\* MainEnvironment::new on a fresh environment: four empty sub-stores.
FreshEnvironment ==
    [primary_key_to_metadata |-> << >>,
     present_operation_ids |-> {},
     next_operation_id |-> 0,
     operation_id_to_operation |-> << >>]

\* The metadata of a primary key as the code reads it (decoded), or None.
Metadata(env, key) ==
    IF key \in DOMAIN env.primary_key_to_metadata
      THEN Some(decode(env.primary_key_to_metadata[key]))
      ELSE None

\* A call's outcome: the store it leaves in the transaction and what it returns.
Outcome(env, status, val) == [env |-> env, status |-> status, val |-> val]

\* ---------------------------------------------------------------- reads
count_of_metadata(env, append_only) ==
    IF append_only
      THEN MapCount(env.operation_id_to_operation)
      ELSE MapCount(env.primary_key_to_metadata)

\* MainEnvironment::count
count(env, append_only) ==
    IF append_only
      THEN MapCount(env.operation_id_to_operation)
      ELSE Cardinality(env.present_operation_ids)

\* MainEnvironment::get_by_operation_id_unchecked: panics unless the log
\* holds an Insert at operation_id.
get_by_operation_id_unchecked(env, operation_id) ==
    LET found == MapGet(env.operation_id_to_operation, operation_id) IN
    IF found # None /\ found[1].type = "Insert"
      THEN Outcome(env, "Ok", <<found[1].record_id, found[1].record>>)
      ELSE Outcome(env, "Panic", << >>)

\* MainEnvironment::get
get(env, key) ==
    LET metadata == Metadata(env, key) IN
    IF metadata = None THEN Outcome(env, "PrimaryKeyNotFound", << >>)
    ELSE IF metadata[1].insert_operation_id = None
      THEN Outcome(env, "PrimaryKeyNotFound", << >>)
    ELSE get_by_operation_id_unchecked(env, metadata[1].insert_operation_id[1])

get_by_operation_id_without_present_check(env, operation_id, append_only) ==
    get_by_operation_id_unchecked(env, operation_id)

\* MainEnvironment::get_by_operation_id; status "None" is Ok(None), status
\* "Ok" is Ok(Some(record_with_id)).
get_by_operation_id(env, operation_id, append_only) ==
    IF ~append_only /\ operation_id \notin env.present_operation_ids
      THEN Outcome(env, "None", << >>)
      ELSE get_by_operation_id_unchecked(env, operation_id)

\* --------------------------------------------------------------- writes
\* LmdbCounter::fetch_add(txn, 1): the store with the counter advanced; the
\* value returned to the caller is the counter before the call.
fetch_add(env) == [env EXCEPT !.next_operation_id = @ + 1]

\* insert, "Get or generate record id from primary_key_to_metadata": the
\* (record_id, record_version) for a primary key that is absent (metadata =
\* None) or was deleted.
record_id_fresh_on_reinsert(env, metadata) ==
    IF metadata = None
      THEN <<MapCount(env.primary_key_to_metadata), INITIAL_RECORD_VERSION>>
      ELSE <<MapCount(env.primary_key_to_metadata), metadata[1].version + 1>>

record_id_from_operation_id(env, metadata) ==
    IF metadata = None
      THEN <<env.next_operation_id - 1, INITIAL_RECORD_VERSION>>
      ELSE <<metadata[1].id, metadata[1].version + 1>>

record_id_and_version(env, metadata) ==
    IF metadata = None
      THEN <<MapCount(env.primary_key_to_metadata), INITIAL_RECORD_VERSION>>
      ELSE <<metadata[1].id, metadata[1].version + 1>>

\* insert, append-only branch: "If the record has no primary key, record id
\* is operation id."
append_only_record_id_from_map(env, operation_id) ==
    MapCount(env.primary_key_to_metadata)

append_only_record_id(env, operation_id) == operation_id

\* insert, "Record operation": the log entry written at operation_id, built
\* from the record id and the caller's record after its version was set.
logged_insert_with_operation_id(record_id, operation_id, record, versioned) ==
    OpInsert(operation_id, versioned)

logged_insert_unversioned(record_id, operation_id, record, versioned) ==
    OpInsert(record_id, record)

logged_insert(record_id, operation_id, record, versioned) ==
    OpInsert(record_id, versioned)

\* MainEnvironment::insert. The outcome's val is
\* <<record_id, operation_id, record as left in the caller's hands>>.
insert(env, record, append_only) ==
    LET operation_id == env.next_operation_id
        env1 == fetch_add(env)
        primary_key == get_primary_key(record)
        metadata == Metadata(env1, primary_key)
        id_version == record_id_and_version(env1, metadata)
        record_id ==
            IF append_only THEN append_only_record_id(env1, operation_id)
            ELSE id_version[1]
        record_version ==
            IF append_only THEN INITIAL_RECORD_VERSION ELSE id_version[2]
        versioned == [record EXCEPT !.version = Some(record_version)]
        env2 ==
            IF append_only THEN env1
            ELSE [env1 EXCEPT
                    !.primary_key_to_metadata =
                        MapInsertOverwrite(@, primary_key,
                            encode([id |-> record_id,
                                    version |-> record_version,
                                    insert_operation_id |-> Some(operation_id)])),
                    !.present_operation_ids = @ \cup {operation_id}]
        env3 == [env2 EXCEPT
                    !.operation_id_to_operation =
                        MapInsertOverwrite(@, operation_id,
                            logged_insert(record_id, operation_id, record, versioned))]
    IN
    IF ~append_only /\ metadata # None /\ metadata[1].insert_operation_id # None
      THEN Outcome(env1, "PrimaryKeyExists", << >>)
    ELSE IF ~append_only /\ operation_id \in env1.present_operation_ids
      THEN Outcome(env2, "Panic", << >>)
    ELSE IF operation_id \in DOMAIN env2.operation_id_to_operation
      THEN Outcome(env2, "Panic", << >>)
    ELSE Outcome(env3, "Ok", <<record_id, operation_id, versioned>>)

\* delete, the early return when no live metadata matches.
delete_not_found_after_fetch_add(env) ==
    Outcome(fetch_add(env), "PrimaryKeyNotFound", << >>)

delete_not_found(env) == Outcome(env, "PrimaryKeyNotFound", << >>)

\* delete, "Remove deleted operation id": the metadata written back.
tombstone_bumping_version(metadata) ==
    [id |-> metadata.id,
     version |-> metadata.version + 1,
     insert_operation_id |-> None]

tombstone_keeping_insert_operation_id(metadata) ==
    [id |-> metadata.id,
     version |-> metadata.version,
     insert_operation_id |-> metadata.insert_operation_id]

tombstone(metadata) ==
    [id |-> metadata.id,
     version |-> metadata.version,
     insert_operation_id |-> None]

\* delete, present_operation_ids.remove(txn, &insert_operation_id).
remove_present_skipped(env, insert_operation_id) == env

remove_present(env, insert_operation_id) ==
    [env EXCEPT !.present_operation_ids = @ \ {insert_operation_id}]

\* delete, "Record delete operation": the log entry written at operation_id.
record_delete_skipped(env, operation_id, insert_operation_id) == env

record_delete_over_insert(env, operation_id, insert_operation_id) ==
    [env EXCEPT
        !.operation_id_to_operation =
            MapInsertOverwrite(@, insert_operation_id,
                               OpDelete(insert_operation_id))]

record_delete_naming_itself(env, operation_id, insert_operation_id) ==
    [env EXCEPT
        !.operation_id_to_operation =
            MapInsertOverwrite(@, operation_id, OpDelete(operation_id))]

record_delete(env, operation_id, insert_operation_id) ==
    [env EXCEPT
        !.operation_id_to_operation =
            MapInsertOverwrite(@, operation_id, OpDelete(insert_operation_id))]

\* MainEnvironment::delete. The outcome's val is
\* <<record_version, insert_operation_id>>.
delete(env, primary_key) ==
    LET metadata == Metadata(env, primary_key)
        insert_operation_id == metadata[1].insert_operation_id[1]
        env1 == [env EXCEPT
                    !.primary_key_to_metadata =
                        MapInsertOverwrite(@, primary_key,
                                           encode(tombstone(metadata[1])))]
        env2 == remove_present(env1, insert_operation_id)
        operation_id == env2.next_operation_id
        env3 == fetch_add(env2)
        env4 == record_delete(env3, operation_id, insert_operation_id)
    IN
    IF metadata = None THEN delete_not_found(env)
    ELSE IF metadata[1].insert_operation_id = None THEN delete_not_found(env)
    ELSE IF insert_operation_id \notin env1.present_operation_ids
      THEN Outcome(env1, "Panic", << >>)
    ELSE IF operation_id \in DOMAIN env3.operation_id_to_operation
      THEN Outcome(env3, "Panic", << >>)
    ELSE Outcome(env4, "Ok", <<metadata[1].version, insert_operation_id>>)

\* ---------------------------------------------------------- the machine
VARIABLES
    schema_is_append_only,  \* Schema::is_append_only() of the environment's schema
    db,                     \* the four sub-stores as last committed
    view,                   \* the sub-stores as the current transaction sees them
    txnOpen,                \* a RwTransaction is open
    txnFailed,              \* an insert or delete of the open transaction returned Err
    ret,                    \* the last call and what it returned
    hist,                   \* history of the calls the view contains
    histC,                  \* history of the calls db contains
    committedFailure,       \* some transaction with a failed call was committed
    snapshot                \* the sub-stores a read-only transaction sees, or None

vars == <<schema_is_append_only, db, view, txnOpen, txnFailed, ret,
          hist, histC, committedFailure, snapshot>>

Ret(call, arg, status, val) ==
    [call |-> call, arg |-> arg, status |-> status, val |-> val]

\* History of successful calls: their number, per primary key the number of
\* successful inserts, the record id of the first one, and the latest
\* insert (what it returned, the values of the record passed in, the
\* version it set) until
\* the key is deleted.
EmptyHistory ==
    [nOk |-> 0,
     inserts |-> [k \in Keys |-> 0],
     firstId |-> [k \in Keys |-> None],
     last |-> [k \in Keys |-> None]]

Init ==
    /\ schema_is_append_only \in BOOLEAN
    /\ db = FreshEnvironment
    /\ view = FreshEnvironment
    /\ txnOpen = FALSE
    /\ txnFailed = FALSE
    /\ ret = Ret("new", << >>, "Ok", << >>)
    /\ hist = EmptyHistory
    /\ histC = EmptyHistory
    /\ committedFailure = FALSE
    /\ snapshot = None

\* The caller opens the read-write transaction (single writer).
Begin ==
    /\ ~txnOpen
    /\ txnOpen' = TRUE
    /\ txnFailed' = FALSE
    /\ ret' = Ret("begin", << >>, "Ok", << >>)
    /\ UNCHANGED <<schema_is_append_only, db, view, hist, histC, committedFailure,
                   snapshot>>

\* The caller commits: the view becomes the committed sub-stores.
Commit ==
    /\ txnOpen
    /\ db' = view
    /\ histC' = hist
    /\ committedFailure' = (committedFailure \/ txnFailed)
    /\ txnOpen' = FALSE
    /\ txnFailed' = FALSE
    /\ ret' = Ret("commit", << >>, "Ok", << >>)
    /\ UNCHANGED <<schema_is_append_only, view, hist, snapshot>>

\* The caller aborts: the store rolls all four sub-stores back.
Abort ==
    /\ txnOpen
    /\ view' = db
    /\ hist' = histC
    /\ txnOpen' = FALSE
    /\ txnFailed' = FALSE
    /\ ret' = Ret("abort", << >>, "Ok", << >>)
    /\ UNCHANGED <<schema_is_append_only, db, histC, committedFailure, snapshot>>

\* What a call's outcome does to the transaction: Ok and Err leave the
\* outcome's store in the view; a panic unwinds, dropping (aborting) the
\* transaction.
Finish(call, arg, out, newHist) ==
    /\ ret' = Ret(call, arg, out.status, out.val)
    /\ IF out.status = "Panic"
         THEN /\ view' = db
              /\ hist' = histC
              /\ txnOpen' = FALSE
              /\ txnFailed' = FALSE
         ELSE /\ view' = out.env
              /\ hist' = IF out.status = "Ok" THEN newHist ELSE hist
              /\ txnOpen' = txnOpen
              /\ txnFailed' = (txnFailed \/
                    (/\ call \in {"insert", "delete"}
                     /\ out.status \in {"PrimaryKeyExists", "PrimaryKeyNotFound"}))
    /\ UNCHANGED <<schema_is_append_only, db, histC, committedFailure, snapshot>>

Insert(record) ==
    /\ txnOpen
    /\ view.next_operation_id < MaxOps
    /\ LET out == insert(view, record, schema_is_append_only)
           k == get_primary_key(record)
       IN Finish("insert", record, out,
             IF schema_is_append_only
               THEN [hist EXCEPT !.nOk = @ + 1]
               ELSE [hist EXCEPT
                       !.nOk = @ + 1,
                       !.inserts[k] = @ + 1,
                       !.firstId[k] = IF @ = None THEN Some(out.val[1]) ELSE @,
                       !.last[k] = Some([record_id |-> out.val[1],
                                         operation_id |-> out.val[2],
                                         values |-> [id |-> record.id,
                                                     name |-> record.name],
                                         version |-> out.val[3].version])])

Delete(primary_key) ==
    /\ txnOpen
    /\ view.next_operation_id < MaxOps
    /\ LET out == delete(view, primary_key)
       IN Finish("delete", primary_key, out,
             [hist EXCEPT !.nOk = @ + 1, !.last[primary_key] = None])

\* The reads below go through the open read-write transaction; reads
\* outside it need a read-only transaction (ReaderGet and the like).
Get(key) ==
    /\ txnOpen
    /\ Finish("get", key, get(view, key), hist)

\* The caller asks for the operation ids its view allocated and for the
\* first one it did not.
GetByOperationId(operation_id) ==
    /\ txnOpen
    /\ operation_id <= view.next_operation_id
    /\ Finish("get_by_operation_id", operation_id,
           get_by_operation_id(view, operation_id, schema_is_append_only), hist)

Count ==
    /\ txnOpen
    /\ Finish("count", << >>,
              Outcome(view, "Ok", <<count(view, schema_is_append_only)>>), hist)

Next ==
    \/ Begin
    \/ Commit
    \/ Abort
    \/ \E record \in Records : Insert(record)
    \/ \E primary_key \in Keys : Delete(primary_key)
    \/ \E key \in Keys : Get(key)
    \/ \E operation_id \in 0..MaxOps : GetByOperationId(operation_id)
    \/ Count

Spec == Init /\ [][Next]_vars

\* The writer without its reads. get, get_by_operation_id and count take
\* &self and a &T: Transaction and write nothing, so they change no variable
\* but ret; what holds of the sub-stores and of the results of insert and
\* delete is checked over these steps.
NextWrites ==
    \/ Begin
    \/ Commit
    \/ Abort
    \/ \E record \in Records : Insert(record)
    \/ \E primary_key \in Keys : Delete(primary_key)

SpecWrites == Init /\ [][NextWrites]_vars

\* ---------------------------------------------------- read-only transactions
\* A reader opens a read-only transaction: it sees the committed sub-stores
\* of that moment for as long as the transaction lives.
ReaderBegin ==
    /\ snapshot = None
    /\ snapshot' = Some(db)
    /\ ret' = Ret("reader_begin", << >>, "Ok", << >>)
    /\ UNCHANGED <<schema_is_append_only, db, view, txnOpen, txnFailed,
                   hist, histC, committedFailure>>

\* The reader drops its transaction.
ReaderEnd ==
    /\ snapshot # None
    /\ snapshot' = None
    /\ ret' = Ret("reader_end", << >>, "Ok", << >>)
    /\ UNCHANGED <<schema_is_append_only, db, view, txnOpen, txnFailed,
                   hist, histC, committedFailure>>

\* A read in the reader's transaction; a panic unwinds the reader and drops
\* its transaction.
ReaderFinish(call, arg, out) ==
    /\ snapshot # None
    /\ ret' = Ret(call, arg, out.status, out.val)
    /\ snapshot' = IF out.status = "Panic" THEN None ELSE snapshot
    /\ UNCHANGED <<schema_is_append_only, db, view, txnOpen, txnFailed,
                   hist, histC, committedFailure>>

ReaderGet(key) ==
    /\ snapshot # None
    /\ ReaderFinish("reader_get", key, get(snapshot[1], key))

\* The reader asks for the operation ids its snapshot allocated and for the
\* first one it did not.
ReaderGetByOperationId(operation_id) ==
    /\ snapshot # None
    /\ operation_id <= snapshot[1].next_operation_id
    /\ ReaderFinish("reader_get_by_operation_id", operation_id,
            get_by_operation_id(snapshot[1], operation_id, schema_is_append_only))

ReaderCount ==
    /\ snapshot # None
    /\ ReaderFinish("reader_count", << >>,
            Outcome(snapshot[1], "Ok",
                    <<count(snapshot[1], schema_is_append_only)>>))

\* The single writer of Next running beside a reader.
NextReaders ==
    \/ Begin
    \/ Commit
    \/ Abort
    \/ \E record \in Records : Insert(record)
    \/ \E primary_key \in Keys : Delete(primary_key)
    \/ ReaderBegin
    \/ ReaderEnd
    \/ \E key \in Keys : ReaderGet(key)
    \/ \E operation_id \in 0..MaxOps : ReaderGetByOperationId(operation_id)
    \/ ReaderCount

SpecReaders == Init /\ [][NextReaders]_vars

\* ------------------------------------------------------------ properties
\* The primary key an insert or delete call was about.
CallKey(r) == IF r.call = "insert" THEN get_primary_key(r.arg) ELSE r.arg

\* The primary keys whose metadata is live (insert_operation_id is Some).
LiveKeys(env) ==
    {k \in DOMAIN env.primary_key_to_metadata :
        Metadata(env, k)[1].insert_operation_id # None}

\* The insert operation ids of the live metadata entries.
LiveOperationIds(env) ==
    {Metadata(env, k)[1].insert_operation_id[1] : k \in LiveKeys(env)}

\* C1: in keyed mode the committed present-operation-id set equals exactly
\* the set of insert_operation_id values of the live metadata entries.
C1_PresentEqualsLive ==
    ~schema_is_append_only =>
        db.present_operation_ids = LiveOperationIds(db)

\* C1 witness: a commit left one key live and another tombstoned.
C1_Witness ==
    /\ ~schema_is_append_only
    /\ ret.call = "commit"
    /\ LiveKeys(db) # {}
    /\ DOMAIN db.primary_key_to_metadata \ LiveKeys(db) # {}

\* C2: record ids are stable: every key's metadata.id is the id its first
\* successful insert wrote, and every successful insert returns that id.
C2_RecordIdStable ==
    ~schema_is_append_only =>
        /\ \A k \in Keys :
              IF hist.firstId[k] = None
                THEN Metadata(view, k) = None
                ELSE /\ Metadata(view, k) # None
                     /\ Metadata(view, k)[1].id = hist.firstId[k][1]
        /\ (ret.call = "insert" /\ ret.status = "Ok") =>
              Some(ret.val[1]) = hist.firstId[get_primary_key(ret.arg)]

\* C2 witness: a key was reinserted after its delete and got its first
\* record id back.
C2_Witness ==
    /\ ~schema_is_append_only
    /\ ret.call = "insert" /\ ret.status = "Ok"
    /\ hist.inserts[get_primary_key(ret.arg)] >= 2
    /\ Some(ret.val[1]) = hist.firstId[get_primary_key(ret.arg)]

\* C3: when no transaction with a failed call was committed, the committed
\* counter equals the number N of committed successful insert and delete
\* calls and the committed log's keys are exactly 0..N-1.
C3_DenseOperationIds ==
    ~committedFailure =>
        /\ db.next_operation_id = histC.nOk
        /\ DOMAIN db.operation_id_to_operation = 0..(histC.nOk - 1)

\* C3 witness: three or more calls committed, a delete among them, and the
\* latest transaction was aborted.
C3_Witness ==
    /\ ~committedFailure
    /\ ret.call = "abort"
    /\ histC.nOk >= 3
    /\ \E op \in DOMAIN db.operation_id_to_operation :
          db.operation_id_to_operation[op].type = "Delete"

\* C4: an insert whose primary key is live fails with PrimaryKeyExists and
\* leaves all four sub-stores, the counter included, as they were.
C4_FailedInsertMutatesNothing ==
    [][(/\ ret'.call = "insert"
        /\ ~schema_is_append_only
        /\ get_primary_key(ret'.arg) \in LiveKeys(view))
          => (ret'.status = "PrimaryKeyExists" /\ view' = view)]_vars

\* C5: get and delete on a key with no metadata or tombstoned metadata fail
\* with PrimaryKeyNotFound, and the failed call changes nothing: counter,
\* log, metadata map and present-op set (and so the history) stay as they are.
C5_NotFoundMutatesNothing ==
    [][(/\ ret'.call \in {"get", "delete"}
        /\ ret'.arg \notin LiveKeys(view))
          => (/\ ret'.status = "PrimaryKeyNotFound"
              /\ view' = view
              /\ hist' = hist)]_vars

\* C5 witness: a delete of a tombstoned key failed inside a transaction.
C5_Witness ==
    /\ ret.call = "delete"
    /\ ret.status = "PrimaryKeyNotFound"
    /\ txnOpen
    /\ Metadata(view, ret.arg) # None
    /\ Metadata(view, ret.arg)[1].insert_operation_id = None

\* C6: for every primary key metadata.version equals the number of
\* successful inserts applied under that key (no entry when there were
\* none), and the k-th successful insert leaves k in the caller's record.
C6_VersionCountsInserts ==
    ~schema_is_append_only =>
        /\ \A k \in Keys :
              IF Metadata(view, k) = None
                THEN hist.inserts[k] = 0
                ELSE Metadata(view, k)[1].version = hist.inserts[k]
        /\ (ret.call = "insert" /\ ret.status = "Ok") =>
              ret.val[3].version = Some(hist.inserts[get_primary_key(ret.arg)])

\* C6 witness: the second successful insert of a key, after its delete,
\* left version 2 in the metadata.
C6_Witness ==
    /\ ~schema_is_append_only
    /\ ret.call = "insert" /\ ret.status = "Ok"
    /\ hist.inserts[CallKey(ret)] = 2
    /\ Metadata(view, CallKey(ret))[1].version = 2

\* C7: at every transaction boundary, for every live primary key the log
\* holds an Insert at metadata.insert_operation_id whose record_id equals
\* metadata.id.
C7_LiveKeyHasInsert ==
    ~schema_is_append_only =>
        \A k \in LiveKeys(db) :
            LET metadata == Metadata(db, k)[1]
                op == metadata.insert_operation_id[1]
            IN /\ op \in DOMAIN db.operation_id_to_operation
               /\ db.operation_id_to_operation[op].type = "Insert"
               /\ db.operation_id_to_operation[op].record_id = metadata.id

\* C7 witness: a committed live key whose insert operation id differs from
\* its record id.
C7_Witness ==
    /\ ~schema_is_append_only
    /\ ~txnOpen
    /\ \E k \in LiveKeys(db) :
          Metadata(db, k)[1].insert_operation_id[1] # Metadata(db, k)[1].id

\* What get and get_by_operation_id must return for the latest insert of
\* every key that was not deleted since.
RoundTrip(env, h) ==
    \A k \in Keys :
        h.last[k] # None =>
            LET l == h.last[k][1]
                expected == <<l.record_id,
                              [id |-> l.values.id,
                               name |-> l.values.name,
                               version |-> Some(h.inserts[k])]>>
                byKey == get(env, k)
                byOp == get_by_operation_id(env, l.operation_id, FALSE)
            IN /\ l.version = Some(h.inserts[k])
               /\ byKey.status = "Ok" /\ byKey.val = expected
               /\ byOp.status = "Ok" /\ byOp.val = expected

\* C8: keyed round trip: after a successful insert of r that returned
\* (record_id, op_id), until the key is deleted, get(primary_key(r)) and
\* get_by_operation_id(op_id, false) both return (record_id, r with the
\* insert's version), whatever happens to other keys; in the committed
\* sub-stores and in the transaction's view.
C8_RoundTrip ==
    ~schema_is_append_only => (RoundTrip(db, histC) /\ RoundTrip(view, hist))

\* C8 witness: a committed insert followed by two committed operations that
\* left it live.
C8_Witness ==
    /\ ~schema_is_append_only
    /\ ~txnOpen
    /\ \E k \in Keys :
          /\ histC.last[k] # None
          /\ histC.last[k][1].operation_id + 3 <= db.next_operation_id
          /\ histC.nOk >= 3

\* C9: with an append-only schema the primary-key map and the present-op
\* set stay empty, every log entry is an Insert whose record_id is its
\* operation id and whose record has version 1, and every insert succeeds,
\* the n-th (from 0) returning (n, n) and setting version 1.
C9_AppendOnly ==
    schema_is_append_only =>
        /\ view.primary_key_to_metadata = << >>
        /\ view.present_operation_ids = {}
        /\ \A op \in DOMAIN view.operation_id_to_operation :
              LET operation == view.operation_id_to_operation[op]
              IN /\ operation.type = "Insert"
                 /\ operation.record_id = op
                 /\ operation.record.version = Some(INITIAL_RECORD_VERSION)
        /\ ret.call = "insert" =>
              /\ ret.status = "Ok"
              /\ ret.val[1] = hist.nOk - 1
              /\ ret.val[2] = hist.nOk - 1
              /\ ret.val[3].version = Some(INITIAL_RECORD_VERSION)

\* C9 witness: the third append-only insert returned (2, 2).
C9_Witness ==
    /\ schema_is_append_only
    /\ ret.call = "insert"
    /\ ret.val[1] = 2 /\ ret.val[2] = 2

\* The insert operation ids that some Delete entry of the log names.
DeletedOperationIds(env) ==
    {env.operation_id_to_operation[d].operation_id :
        d \in {op \in DOMAIN env.operation_id_to_operation :
                  env.operation_id_to_operation[op].type = "Delete"}}

\* C10: in keyed mode get_by_operation_id(op_id, false) returns None for the
\* id of a Delete entry, for the id of an Insert superseded by a delete and
\* for an id never allocated, and returns Some exactly for the operation
\* ids of the live inserts.
C10_NoneUnlessLive ==
    ~schema_is_append_only =>
        \A op \in 0..MaxOps :
            LET out == get_by_operation_id(view, op, FALSE)
                log == view.operation_id_to_operation
            IN /\ op \notin DOMAIN log => out.status = "None"
               /\ (op \in DOMAIN log /\ log[op].type = "Delete")
                     => out.status = "None"
               /\ op \in DeletedOperationIds(view) => out.status = "None"
               /\ out.status = "Ok" <=> op \in LiveOperationIds(view)
               /\ out.status \in {"Ok", "None"}

\* C10 witness: get_by_operation_id was called with the id of a superseded
\* Insert and returned None.
C10_Witness ==
    /\ ~schema_is_append_only
    /\ ret.call = "get_by_operation_id"
    /\ ret.status = "None"
    /\ ret.arg \in DeletedOperationIds(view)

\* The keys of the operation log are 0..n-1 for the n entries it holds.
GapFree(env) ==
    DOMAIN env.operation_id_to_operation =
        0..(MapCount(env.operation_id_to_operation) - 1)

\* C11: aborting the read-write transaction restores all four sub-stores,
\* the counter included, to their state at the start of the transaction
\* (the committed sub-stores), and the operation ids of the committed
\* operations are gap-free.
C11_AbortRestoresIdsGapFree ==
    [][/\ ret'.call = "abort" => (view' = db /\ db' = db)
       /\ GapFree(db')]_vars

\* What a reader may rely on in one snapshot: the present-op set is the set
\* of live insert operation ids, every live key's Insert is in the log with
\* the key's record id, every log key is below the counter, and no read
\* reaches an inconsistent-state panic.
ReaderConsistent(env) ==
    /\ \A op \in DOMAIN env.operation_id_to_operation : op < env.next_operation_id
    /\ ~schema_is_append_only =>
          /\ env.present_operation_ids = LiveOperationIds(env)
          /\ count(env, FALSE) = Cardinality(LiveKeys(env))
          /\ \A k \in LiveKeys(env) :
                LET metadata == Metadata(env, k)[1]
                    byKey == get(env, k)
                    byOp == get_by_operation_id(env,
                                metadata.insert_operation_id[1], FALSE)
                IN /\ byKey.status = "Ok"
                   /\ byKey.val[1] = metadata.id
                   /\ byOp = byKey
          /\ \A op \in 0..MaxOps :
                get_by_operation_id(env, op, FALSE).status \in {"Ok", "None"}
    /\ schema_is_append_only =>
          /\ count(env, TRUE) = env.next_operation_id
          /\ \A op \in DOMAIN env.operation_id_to_operation :
                get_by_operation_id(env, op, TRUE).status = "Ok"

\* C12: with one writer beside a reader, the reader's snapshot is the
\* committed sub-stores of the moment it was taken, no step of the writer
\* (its commit included) changes it, and in every snapshot metadata,
\* present-op set, log and counter are mutually consistent.
C12_ReaderSnapshotAtomic ==
    /\ [](snapshot # None => ReaderConsistent(snapshot[1]))
    /\ [][/\ (snapshot # None /\ snapshot' # None) => snapshot' = snapshot
          /\ (snapshot = None /\ snapshot' # None) => snapshot' = Some(db)]_vars

\* C12 witness: the reader reads by key in a snapshot older than the
\* committed sub-stores while the writer holds uncommitted changes.
C12_Witness ==
    /\ snapshot # None
    /\ snapshot[1] # db
    /\ txnOpen
    /\ view # db
    /\ ret.call = "reader_get"
    /\ ret.status = "Ok"

\* The state of a primary key in the per-key state machine.
KeyState(env, k) ==
    IF Metadata(env, k) = None THEN "Unknown"
    ELSE IF Metadata(env, k)[1].insert_operation_id = None THEN "Tombstoned"
    ELSE "Live"

\* C13: an insert or delete call moves only its own primary key, and only
\* along Unknown -insert-> Live, Live -delete-> Tombstoned, Tombstoned
\* -insert-> Live; insert on Live fails and leaves it Live; no call returns a
\* key to Unknown; the committed primary-key map never loses an entry.
C13_KeyStateMachine ==
    [][/\ DOMAIN db.primary_key_to_metadata \subseteq DOMAIN db'.primary_key_to_metadata
       /\ (ret'.call \in {"insert", "delete"} /\ ~schema_is_append_only) =>
            \A k \in Keys :
                LET s == KeyState(view, k)
                    t == KeyState(view', k)
                IN IF k # CallKey(ret') THEN t = s
                   ELSE IF ret'.call = "insert"
                     THEN /\ t = "Live"
                          /\ ret'.status =
                               IF s = "Live" THEN "PrimaryKeyExists" ELSE "Ok"
                     ELSE IF s = "Live"
                            THEN t = "Tombstoned" /\ ret'.status = "Ok"
                            ELSE t = s /\ ret'.status = "PrimaryKeyNotFound"]_vars

\* C13 witness: one key went Unknown, Live, Tombstoned, Live while another
\* key is still Unknown.
C13_Witness ==
    /\ ~schema_is_append_only
    /\ ret.call = "insert" /\ ret.status = "Ok"
    /\ ret.val[3].version = Some(2)
    /\ \E k \in Keys : KeyState(view, k) = "Unknown"

\* C14: the operation log is append-only: no step changes or removes a
\* committed entry, the committed counter never decreases, and each
\* successful insert or delete adds exactly one entry, of its own kind, at
\* the operation id it allocated, leaving the entries it found untouched.
C14_LogAppendOnly ==
    [][/\ \A op \in DOMAIN db.operation_id_to_operation :
             /\ op \in DOMAIN db'.operation_id_to_operation
             /\ db'.operation_id_to_operation[op] = db.operation_id_to_operation[op]
       /\ db'.next_operation_id >= db.next_operation_id
       /\ (ret'.call \in {"insert", "delete"} /\ ret'.status = "Ok") =>
             LET old == view.operation_id_to_operation
                 new == view'.operation_id_to_operation
                 fresh == view.next_operation_id
             IN /\ fresh \notin DOMAIN old
                /\ DOMAIN new = DOMAIN old \cup {fresh}
                /\ \A op \in DOMAIN old : new[op] = old[op]
                /\ new[fresh].type =
                      IF ret'.call = "insert" THEN "Insert" ELSE "Delete"
                /\ view'.next_operation_id = fresh + 1]_vars

\* C14 witness: a delete appended the log's third entry after earlier
\* entries were committed.
C14_Witness ==
    /\ ret.call = "delete" /\ ret.status = "Ok"
    /\ MapCount(view.operation_id_to_operation) >= 3
    /\ MapCount(db.operation_id_to_operation) >= 1
    /\ MapCount(db.operation_id_to_operation) < MapCount(view.operation_id_to_operation)

\* The number of successful inserts a history holds, over the keys 1..n.
RECURSIVE SumInserts(_, _)
SumInserts(h, n) == IF n = 0 THEN 0 ELSE h.inserts[n] + SumInserts(h, n - 1)

\* C15: count(txn, false) is the size of the present-op set, which is the
\* number of Live primary keys, i.e. successful inserts minus successful
\* deletes; count(txn, true) is the number of log entries, which in an
\* append-only environment is the number of inserts.
C15_Count ==
    LET inserts == SumInserts(hist, NumKeys)
        deletes == hist.nOk - inserts
    IN IF schema_is_append_only
         THEN /\ count(view, TRUE) = MapCount(view.operation_id_to_operation)
              /\ count(view, TRUE) = hist.nOk
              /\ ret.call = "count" => ret.val[1] = hist.nOk
         ELSE /\ count(view, FALSE) = Cardinality(view.present_operation_ids)
              /\ count(view, FALSE) = Cardinality(LiveKeys(view))
              /\ count(view, FALSE) = inserts - deletes
              /\ ret.call = "count" => ret.val[1] = inserts - deletes

\* C15 witness: count returned 1 in keyed mode with one key live and one
\* tombstoned.
C15_Witness ==
    /\ ~schema_is_append_only
    /\ ret.call = "count"
    /\ ret.val[1] = 1
    /\ \E k \in Keys : KeyState(view, k) = "Tombstoned"

\* The ids of the Delete entries of the log that name an Insert of record_id.
DeletesOfRecord(env, record_id) ==
    {d \in DOMAIN env.operation_id_to_operation :
        LET log == env.operation_id_to_operation IN
        /\ log[d].type = "Delete"
        /\ log[d].operation_id \in DOMAIN log
        /\ log[log[d].operation_id].type = "Insert"
        /\ log[log[d].operation_id].record_id = record_id}

\* C16: a successful delete of a Live key returns (v, i), the version and
\* insert operation id of the record removed; it keeps metadata.id and
\* metadata.version, clears insert_operation_id, removes i from the
\* present-op set and appends exactly Delete{operation_id: i} at the next
\* operation id. The next insert of that key returns the same record id,
\* sets version v + 1 and gets an operation id above the delete's.
C16_DeleteThenReinsert ==
    [][/\ (ret'.call = "delete" /\ ret'.status = "Ok") =>
             LET k == ret'.arg
                 before == Metadata(view, k)[1]
                 after == Metadata(view', k)[1]
                 i == before.insert_operation_id[1]
                 fresh == view.next_operation_id
             IN /\ KeyState(view, k) = "Live"
                /\ ret'.val = <<before.version, i>>
                /\ after = [id |-> before.id,
                            version |-> before.version,
                            insert_operation_id |-> None]
                /\ \A other \in Keys \ {k} :
                      Metadata(view', other) = Metadata(view, other)
                /\ i \in view.present_operation_ids
                /\ view'.present_operation_ids = view.present_operation_ids \ {i}
                /\ view'.operation_id_to_operation =
                      MapInsertOverwrite(view.operation_id_to_operation,
                                         fresh, OpDelete(i))
                /\ fresh \notin DOMAIN view.operation_id_to_operation
                /\ view'.next_operation_id = fresh + 1
       /\ (/\ ret'.call = "insert" /\ ret'.status = "Ok"
           /\ ~schema_is_append_only
           /\ KeyState(view, CallKey(ret')) = "Tombstoned") =>
             LET before == Metadata(view, CallKey(ret'))[1]
                 deletes == DeletesOfRecord(view, before.id)
             IN /\ ret'.val[1] = before.id
                /\ ret'.val[3].version = Some(before.version + 1)
                /\ deletes # {}
                /\ \A d \in deletes : ret'.val[2] > d]_vars

\* C16 witness: a key deleted at version 1 was inserted again.
C16_Witness ==
    /\ ~schema_is_append_only
    /\ ret.call = "insert" /\ ret.status = "Ok"
    /\ ret.val[3].version = Some(2)
    /\ DeletesOfRecord(view, ret.val[1]) # {}
    /\ \A d \in DeletesOfRecord(view, ret.val[1]) : ret.val[2] > d

\* The record ids the primary-key map holds.
RecordIds(env) ==
    {Metadata(env, k)[1].id : k \in DOMAIN env.primary_key_to_metadata}

\* C17: in keyed mode the metadata ids of distinct primary keys are pairwise
\* distinct and are exactly 0..M-1 for the map size M, and the first insert
\* of a key returns the map size it found (M-1 once its entry is in).
C17_DenseRecordIds ==
    ~schema_is_append_only =>
        LET size == MapCount(view.primary_key_to_metadata) IN
        /\ RecordIds(view) = 0..(size - 1)
        /\ Cardinality(RecordIds(view)) = size
        /\ (/\ ret.call = "insert" /\ ret.status = "Ok"
            /\ hist.inserts[CallKey(ret)] = 1) => ret.val[1] = size - 1

\* C17 witness: the second key's first insert came after other operations
\* and returned record id 1 at an operation id above 1.
C17_Witness ==
    /\ ~schema_is_append_only
    /\ ret.call = "insert" /\ ret.status = "Ok"
    /\ hist.inserts[CallKey(ret)] = 1
    /\ ret.val[1] = 1
    /\ ret.val[2] > 1

\* C18: in keyed mode no call reaches an 'Inconsistent state' panic: none
\* did, and in every reachable state no insert, delete, get or
\* get_by_operation_id(_, false) would.
C18_NoPanic ==
    ~schema_is_append_only =>
        /\ ret.status # "Panic"
        /\ \A record \in Records :
              insert(view, record, FALSE).status \in {"Ok", "PrimaryKeyExists"}
        /\ \A k \in Keys :
              /\ delete(view, k).status \in {"Ok", "PrimaryKeyNotFound"}
              /\ get(view, k).status \in {"Ok", "PrimaryKeyNotFound"}
        /\ \A op \in 0..MaxOps :
              get_by_operation_id(view, op, FALSE).status \in {"Ok", "None"}

\* C18 witness: after a transaction with a failed insert was committed,
\* get_by_operation_id was called with the operation id the failed insert
\* consumed and returned None.
C18_Witness ==
    /\ ~schema_is_append_only
    /\ committedFailure
    /\ ret.call = "get_by_operation_id"
    /\ ret.status = "None"
    /\ ret.arg < db.next_operation_id
    /\ ret.arg \notin DOMAIN db.operation_id_to_operation

\* The ids of the log's entries of one kind.
EntriesOfType(env, type) ==
    {op \in DOMAIN env.operation_id_to_operation :
        env.operation_id_to_operation[op].type = type}

C20_AppendOnlyGetIsTotal ==
    [][(schema_is_append_only /\ ret'.call = "get_by_operation_id") =>
          LET log == view.operation_id_to_operation IN
          IF ret'.arg \in DOMAIN log
            THEN /\ ret'.status = "Ok"
                 /\ ret'.val = <<log[ret'.arg].record_id, log[ret'.arg].record>>
            ELSE ret'.status = "None"]_vars

====
